---------------------------- MODULE Spec2Model ----------------------------
(***************************************************************************)
(* Model of the Telegram file relay bot (bot.py): the in-memory link       *)
(* registry file_storage, the ingestion of media messages                  *)
(* (media_handler / download_telegram_file), the HTTP retrieval route      *)
(* (download_file) and the hourly sweeper (cleanup_old_files).             *)
(*                                                                         *)
(* Time is counted in hours.  Every coroutine runs on one asyncio event    *)
(* loop, so the code between two awaits is one atomic action here.         *)
(*                                                                         *)
(* Spec and SpecCollide take the bot as started: its handlers are          *)
(* registered and the sweeper task has been created at time 0.             *)
(* SpecStartup begins before startup_event, with any Config.  SpecNames    *)
(* runs the lines of media_handler that name the file on a set of names.   *)
(***************************************************************************)
EXTENDS Integers, Sequences, FiniteSets, TLC

(***************************************************************************)
(* Program constants                                                       *)
(***************************************************************************)
\* timedelta(hours=24) in cleanup_old_files, hours=24 in delete_expired_links
TTL == 24
\* asyncio.sleep(3600): one hour between two sweeper ticks
SleepInterval == 1

(***************************************************************************)
(* Bounds of the model                                                     *)
(***************************************************************************)
\* the clock is observed every ClockStep hours, up to MaxTime
ClockStep == 12
MaxTime == 36
\* chats the bot receives media in; Message.id is unique inside one chat only
MaxChats == 2
\* messages per chat (ids 1..MaxMsgId, counted per chat)
MaxMsgId == 1
\* values secrets.token_urlsafe can return
MaxTokens == 2
\* chunks a media stream can carry
MaxChunks == 1
\* concurrent HTTP requests
MaxRequests == 1
\* Telegram users
MaxUsers == 1

Chats == 1..MaxChats
Tokens == 1..MaxTokens
Requests == 1..MaxRequests
Users == 1..MaxUsers
NoToken == 0
NoTime == -1

(***************************************************************************)
(* File names: sequences of characters                                     *)
(***************************************************************************)
\* str.isalnum() holds for these characters (the last one is not ASCII)
AlnumChars == {"a", "b", "c", "d", "e", "g", "h", "i", "j", "m", "n", "o",
               "p", "t", "u", "v", "0", "1", "2", "3", "4", "5", "6", "7",
               "8", "9", "U00E9"}
\* c in (' ', '.', '_')
ExtraChars == {" ", ".", "_"}

\* str.rstrip(): drop the trailing whitespace
RECURSIVE RStrip(_)
RStrip(s) ==
    IF s = <<>> THEN <<>>
    ELSE IF s[Len(s)] = " " THEN RStrip(SubSeq(s, 1, Len(s) - 1))
    ELSE s

KeepChar(c) == c \in AlnumChars \/ c \in ExtraChars

\* mutant: the trailing whitespace is dropped before the characters are filtered
SafeFilenameStripFirst(file_name) == SelectSeq(RStrip(file_name), KeepChar)

\* "".join(c for c in file_name if c.isalnum() or c in (' ', '.', '_')).rstrip()
SafeFilename(file_name) == RStrip(SelectSeq(file_name, KeepChar))

\* str(message.id) for the ids of the model
Digit(n) == <<"0", "1", "2", "3", "4", "5", "6", "7", "8", "9">>[n + 1]

\* the media of a message: its kind, its declared name (<<>>: None) and size
\* file_name as media_handler derives it from the message
MediaFileName(media, id) ==
    CASE media.kind = "document" ->
            IF media.file_name = <<>> THEN <<"d", "o", "c", "u", "m", "e", "n", "t">>
            ELSE media.file_name
      [] media.kind = "video" ->
            IF media.file_name = <<>> THEN <<"v", "i", "d", "e", "o", ".", "m", "p", "4">>
            ELSE media.file_name
      [] media.kind = "audio" ->
            IF media.file_name = <<>> THEN <<"a", "u", "d", "i", "o", ".", "m", "p", "3">>
            ELSE media.file_name
      [] media.kind = "photo" ->
            <<"p", "h", "o", "t", "o", "_", Digit(id), ".", "j", "p", "g">>
      [] OTHER -> <<"f", "i", "l", "e">>

\* DOWNLOADS_DIR / f"{file_id}_{safe_filename}": file_id is all digits, so the
\* path determines the pair and the pair the path
DownloadPath(file_id, safe_filename) == <<"downloads", file_id, safe_filename>>

\* the media messages the transport delivers in the model
DeclaredNames == { <<"a", "*", "b">>, <<"a", "b">>, <<"*">> }
\* the size the transport declares, in chunks; the stream may carry less or more
DeclaredSizes == {1}
Medias == [kind : {"document"}, file_name : DeclaredNames, file_size : DeclaredSizes]

\* the names the sanitizing lines are run on, one by one: every string of up to
\* MaxNameLen characters of NameChars (<<>>: the transport declares no name)
MaxNameLen == 3
NameChars == {"a", " ", "*", "U00E9"}
NameInputs == UNION {[1..n -> NameChars] : n \in 0..MaxNameLen}
\* filters.media: the four kinds media_handler names, and any other (a sticker)
MediaKinds == {"document", "video", "audio", "photo", "sticker"}
NameMedias == [kind : MediaKinds, file_name : NameInputs, file_size : DeclaredSizes]
\* [A-Za-z0-9._ ]: the ASCII letters and digits, and the three extra characters
AsciiAllowed == (AlnumChars \ {"U00E9"}) \cup ExtraChars

(***************************************************************************)
(* State                                                                   *)
(***************************************************************************)
VARIABLES
    now,            \* datetime.now(), in hours
    file_storage,   \* token -> record: the registry (a dict)
    allowed_users,  \* users admitted by the "I've Joined" callback
    files,          \* path -> size in chunks: the files under downloads/
    next_id,        \* chat -> id of the next message of the chat
    handler,        \* chat -> the media_handler invocation running for it, with
                    \* the state of its media stream (live, stalled, raised, ended);
                    \* written and linked are the position and the descriptor of
                    \* download_telegram_file, gone when the file is closed
    request,        \* HTTP request slot -> the /download request in it
    sweeper,        \* the cleanup_old_files task: where it is, and its locals
    issued,         \* the tokens generate_download_url has returned
    server,         \* the FastAPI application: its phase, Config, bot_started
    sanitizer       \* a file name on its way through the lines that sanitize it

vars == <<now, file_storage, allowed_users, files, next_id, handler, request,
          sweeper, issued, server, sanitizer>>

IdleHandler ==
    [pc |-> "idle", file_id |-> 0, safe_filename |-> <<>>, declared |-> 0,
     written |-> 0, linked |-> FALSE, stream |-> "none", token |-> NoToken,
     is_subscribed |-> FALSE, short_url |-> <<>>]

IdleRequest ==
    [pc |-> "idle", token |-> NoToken, path |-> <<>>, status |-> "none", detail |-> "none"]

\* Config as the environment sets it: "" and 0 are what `not cls.X` rejects
Configs == [API_ID : {0, 23323985}, API_HASH : {"", "hash"}, BOT_TOKEN : {"", "token"}]

DefaultConfig == [API_ID |-> 23323985, API_HASH |-> "hash", BOT_TOKEN |-> "token"]

\* Config.validate() returns True; it raises ValueError otherwise
ConfigValidate(config) ==
    config.API_ID # 0 /\ config.API_HASH # "" /\ config.BOT_TOKEN # ""

\* no name is in the sanitizing lines
IdleSanitizer ==
    [stage |-> "off", media |-> <<>>, id |-> 0, file_name |-> <<>>,
     safe_filename |-> <<>>, again |-> <<>>]

\* the registry, the bot and the route before anything has happened
InitProgram ==
    /\ now = 0
    /\ file_storage = <<>>
    /\ allowed_users = {}
    /\ files = <<>>
    /\ next_id = [c \in Chats |-> 1]
    /\ handler = [c \in Chats |-> IdleHandler]
    /\ request = [r \in Requests |-> IdleRequest]
    /\ issued = {}

\* startup_event has run with a valid Config: the bot is started, the sweeper
\* task created, the application serves
Init ==
    /\ InitProgram
    /\ sweeper = [pc |-> "sleeping", wake |-> SleepInterval,
                  current_time |-> NoTime, expired_tokens |-> {},
                  deleted |-> {}, stuck |-> {}]
    /\ server = [phase |-> "serving", config |-> DefaultConfig, bot_started |-> TRUE]
    /\ sanitizer = IdleSanitizer

(***************************************************************************)
(* The file system under downloads/                                        *)
(***************************************************************************)
Exists(path) == path \in DOMAIN files

\* Path.unlink(): the name goes; a descriptor open on the file keeps the file
Unlink(fs, paths) == [p \in DOMAIN fs \ paths |-> fs[p]]

\* open(path, 'wb'): create the file, or truncate the one that is there
OpenWb(fs, path) == [p \in DOMAIN fs \cup {path} |-> IF p = path THEN 0 ELSE fs[p]]

\* a write of one chunk at offset `written` through a descriptor on `path`
WriteAt(fs, path, written) ==
    [fs EXCEPT ![path] = IF @ > written + 1 THEN @ ELSE written + 1]

\* the descriptors of the running downloads lose their name when it is unlinked
Detach(h, paths) ==
    [c \in Chats |->
        IF h[c].pc = "streaming"
           /\ DownloadPath(h[c].file_id, h[c].safe_filename) \in paths
        THEN [h[c] EXCEPT !.linked = FALSE]
        ELSE h[c]]

(***************************************************************************)
(* The registry                                                            *)
(***************************************************************************)
\* the dict generate_download_url stores under the token
NewRecord(file_id, file_name, file_path, file_size, created_at) ==
    [file_id |-> file_id, file_name |-> file_name, file_path |-> file_path,
     file_size |-> file_size, created_at |-> created_at]

\* file_storage[token] = {...}: a dict assignment, whether or not the key is there
GenerateDownloadUrl(storage, token, record) ==
    [t \in DOMAIN storage \cup {token} |-> IF t = token THEN record ELSE storage[t]]

\* del file_storage[token]
Remove(storage, tokens) == [t \in DOMAIN storage \ tokens |-> storage[t]]

\* mutant: the record expires when its age reaches the TTL
ExpiredAtDeadline(data, current_time) == current_time - data.created_at >= TTL

\* mutant: the sweep interval is taken for the TTL
ExpiredAfterInterval(data, current_time) == current_time - data.created_at > SleepInterval

\* current_time - data['created_at'] > timedelta(hours=24)
Expired(data, current_time) == current_time - data.created_at > TTL

(***************************************************************************)
(* The bot: admission and ingestion                                        *)
(***************************************************************************)
\* joined_ignore_check_callback: the button admits whoever presses it
JoinedCallback(u) ==
    /\ server.bot_started
    /\ allowed_users' = allowed_users \cup {u}
    /\ UNCHANGED <<now, file_storage, files, next_id, handler, request, sweeper, issued, server, sanitizer>>

\* media_handler, sender not in allowed_users: check_group_subscription is
\* awaited
MediaCheck(c, u) ==
    /\ server.bot_started
    /\ next_id[c] <= MaxMsgId
    /\ handler[c].pc = "idle"
    /\ u \notin allowed_users
    /\ next_id' = [next_id EXCEPT ![c] = @ + 1]
    /\ handler' = [handler EXCEPT ![c].pc = "checking"]
    /\ UNCHANGED <<now, file_storage, allowed_users, files, request, sweeper, issued, server, sanitizer>>

\* check_group_subscription has answered (False also when get_chat_member
\* raised): "You must join" is replied when the answer is False, and the
\* handler returns, whatever the answer: the return of line 254 is in the
\* block of `if user_id not in allowed_users`
MediaRejected(c, is_subscribed) ==
    /\ handler[c].pc = "checking"
    /\ handler' = [handler EXCEPT ![c].pc = "rejected",
                                   ![c].is_subscribed = is_subscribed]
    /\ UNCHANGED <<now, file_storage, allowed_users, files, next_id, request, sweeper, issued, server, sanitizer>>

\* media_handler up to the first chunk awaited in download_telegram_file: the
\* name is sanitized, the path built, the file opened for writing
MediaStart(c, u, media) ==
    LET id == next_id[c]
        safe_filename == SafeFilename(MediaFileName(media, id))
        download_path == DownloadPath(id, safe_filename)
    IN  /\ server.bot_started
        /\ next_id[c] <= MaxMsgId
        /\ handler[c].pc = "idle"
        /\ u \in allowed_users
        /\ next_id' = [next_id EXCEPT ![c] = @ + 1]
        /\ files' = OpenWb(files, download_path)
        /\ handler' = [handler EXCEPT ![c] =
               [pc |-> "streaming", file_id |-> id, safe_filename |-> safe_filename,
                declared |-> media.file_size, written |-> 0, linked |-> TRUE,
                stream |-> "live", token |-> NoToken, is_subscribed |-> FALSE,
                short_url |-> <<>>]]
        /\ UNCHANGED <<now, file_storage, allowed_users, request, sweeper, issued, server, sanitizer>>

HandlerPath(c) == DownloadPath(handler[c].file_id, handler[c].safe_filename)

Streaming(c) == handler[c].pc = "streaming" /\ handler[c].stream = "live"

\* one turn of the async for: a chunk arrives and is written
StreamChunk(c) ==
    /\ Streaming(c)
    /\ handler[c].written < MaxChunks
    /\ handler' = [handler EXCEPT ![c].written = @ + 1]
    /\ files' = IF handler[c].linked /\ Exists(HandlerPath(c))
                 THEN WriteAt(files, HandlerPath(c), handler[c].written)
                 ELSE files
    /\ UNCHANGED <<now, file_storage, allowed_users, next_id, request, sweeper, issued, server, sanitizer>>

\* the transport stops sending without closing the stream
StreamStall(c) ==
    /\ Streaming(c)
    /\ handler' = [handler EXCEPT ![c].stream = "stalled"]
    /\ UNCHANGED <<now, file_storage, allowed_users, files, next_id, request, sweeper, issued, server, sanitizer>>

\* mutant: the except branch returns False and leaves the partial file
StreamFailKeepsFile(c) ==
    /\ handler[c].pc = "streaming" /\ handler[c].stream = "live"
    /\ handler' = [handler EXCEPT ![c].pc = "failed", ![c].stream = "raised"]
    /\ UNCHANGED <<now, file_storage, allowed_users, files, next_id, request, sweeper, issued, server, sanitizer>>

\* the stream raises: the except branch of download_telegram_file unlinks the
\* path and returns False, media_handler goes to its else branch
StreamFail(c) ==
    /\ Streaming(c)
    /\ files' = Unlink(files, {HandlerPath(c)})
    /\ handler' = [Detach(handler, {HandlerPath(c)}) EXCEPT
                       ![c].pc = "failed", ![c].stream = "raised", ![c].linked = FALSE]
    /\ UNCHANGED <<now, file_storage, allowed_users, next_id, request, sweeper, issued, server, sanitizer>>

\* mutant: the size the transport declared is registered, not the measured one
StreamEndRegisterDeclared(c, token) ==
    /\ Streaming(c)
    /\ Exists(HandlerPath(c))
    /\ file_storage' = GenerateDownloadUrl(file_storage, token,
            NewRecord(handler[c].file_id, handler[c].safe_filename, HandlerPath(c),
                      handler[c].declared, now))
    /\ issued' = issued \cup {token}
    /\ handler' = [handler EXCEPT ![c].pc = "registered", ![c].stream = "ended",
                                   ![c].token = token, ![c].written = 0,
                                   ![c].linked = FALSE]
    /\ UNCHANGED <<now, allowed_users, files, next_id, request, sweeper, server, sanitizer>>

\* the stream ends: download_telegram_file returns True, the file is there,
\* media_handler measures it and registers it under `token`
StreamEndRegister(c, token) ==
    /\ Streaming(c)
    /\ Exists(HandlerPath(c))
    /\ file_storage' = GenerateDownloadUrl(file_storage, token,
            NewRecord(handler[c].file_id, handler[c].safe_filename, HandlerPath(c),
                      files[HandlerPath(c)], now))
    /\ issued' = issued \cup {token}
    /\ handler' = [handler EXCEPT ![c].pc = "registered", ![c].stream = "ended",
                                   ![c].token = token, ![c].written = 0,
                                   ![c].linked = FALSE]
    /\ UNCHANGED <<now, allowed_users, files, next_id, request, sweeper, server, sanitizer>>

\* the stream ends but the path is gone: success and download_path.exists() fails
StreamEndMissing(c) ==
    /\ Streaming(c)
    /\ ~Exists(HandlerPath(c))
    /\ handler' = [handler EXCEPT ![c].pc = "failed", ![c].stream = "ended",
                                   ![c].written = 0, ![c].linked = FALSE]
    /\ UNCHANGED <<now, file_storage, allowed_users, files, next_id, request, sweeper, issued, server, sanitizer>>

\* f"{Config.BASE_URL}/download/{token}"
LongUrl(token) == <<"BASE_URL", "download", token>>

\* the body TinyURL answers a 200 with, stripped
ShortUrl(long_url) == <<"tinyurl", long_url>>

\* shorten_url: the stripped body on status 200, long_url on any other status
\* and on any exception
ShortenUrl(long_url, outcome) ==
    IF outcome = "200" THEN ShortUrl(long_url) ELSE long_url

ShortenOutcomes == {"200", "non200", "exception"}

\* mutant: the link is built and sent to the shortener while the file is
\* still being downloaded
ShortenStartEarly(c) ==
    /\ Streaming(c)
    /\ Tokens \ issued # {}
    /\ handler' = [handler EXCEPT ![c].pc = "shortening",
                                   ![c].token = CHOOSE t \in Tokens : t \notin issued]
    /\ UNCHANGED <<now, file_storage, allowed_users, files, next_id, request, sweeper, issued, server, sanitizer>>

\* after the registration: the progress message is edited ("Generating short
\* URL...") and shorten_url sends long_url to TinyURL
ShortenStart(c) ==
    /\ handler[c].pc = "registered"
    /\ handler' = [handler EXCEPT ![c].pc = "shortening"]
    /\ UNCHANGED <<now, file_storage, allowed_users, files, next_id, request, sweeper, issued, server, sanitizer>>

\* shorten_url returns; the notification task is created with short_url and
\* the final edit of the progress message is awaited
ShortenReturn(c, outcome) ==
    /\ handler[c].pc = "shortening"
    /\ handler' = [handler EXCEPT ![c].pc = "shortened",
                                   ![c].short_url = ShortenUrl(LongUrl(handler[c].token), outcome)]
    /\ UNCHANGED <<now, file_storage, allowed_users, files, next_id, request, sweeper, issued, server, sanitizer>>

\* progress_msg.edit_text raises (the first edit after the registration, or
\* the final one): the except branch of media_handler replies "Error
\* processing file"
EditRaises(c) ==
    /\ handler[c].pc \in {"registered", "shortened"}
    /\ handler' = [handler EXCEPT ![c].pc = "error"]
    /\ UNCHANGED <<now, file_storage, allowed_users, files, next_id, request, sweeper, issued, server, sanitizer>>

\* the final message, with short_url and long_url, is shown: media_handler
\* returns
MediaFinal(c) ==
    /\ handler[c].pc = "shortened"
    /\ handler' = [handler EXCEPT ![c] = IdleHandler]
    /\ UNCHANGED <<now, file_storage, allowed_users, files, next_id, request, sweeper, issued, server, sanitizer>>

\* media_handler returns with no link: after "Download failed", after the
\* rejection, after "Error processing file"
MediaReturn(c) ==
    /\ handler[c].pc \in {"failed", "rejected", "error"}
    /\ handler' = [handler EXCEPT ![c] = IdleHandler]
    /\ UNCHANGED <<now, file_storage, allowed_users, files, next_id, request, sweeper, issued, server, sanitizer>>

(***************************************************************************)
(* The HTTP route                                                          *)
(***************************************************************************)
\* mutant: the 404 is raised and the record stays
LazyRepairSkipped(storage, token) == storage

\* what download_file does with the registry: lazy repair of a record whose
\* file is gone
LazyRepair(storage, token) == Remove(storage, {token})

\* download_file(token): 404, 404 with repair, or a FileResponse on the path;
\* `detail` is the body of the HTTPException
DownloadFile(r, token) ==
    /\ server.phase = "serving"
    /\ request[r].pc \in {"idle", "done"}
    /\ IF token \notin DOMAIN file_storage
       THEN /\ request' = [request EXCEPT ![r] =
                   [pc |-> "done", token |-> token, path |-> <<>>, status |-> "404",
                    detail |-> "File not found or expired"]]
            /\ UNCHANGED file_storage
       ELSE IF ~Exists(file_storage[token].file_path)
       THEN /\ request' = [request EXCEPT ![r] =
                   [pc |-> "done", token |-> token, path |-> <<>>, status |-> "404",
                    detail |-> "File not found"]]
            /\ file_storage' = LazyRepair(file_storage, token)
       ELSE /\ request' = [request EXCEPT ![r] =
                   [pc |-> "responding", token |-> token,
                    path |-> file_storage[token].file_path, status |-> "none",
                    detail |-> "none"]]
            /\ UNCHANGED file_storage
    /\ UNCHANGED <<now, allowed_users, files, next_id, handler, sweeper, issued, server, sanitizer>>

\* the returned FileResponse is sent after the handler has returned: it stats
\* its path then, and the request fails (500) if the path is gone
SendResponse(r) ==
    /\ request[r].pc = "responding"
    /\ request' = [request EXCEPT ![r].pc = "done",
                                   ![r].status = IF Exists(request[r].path) THEN "200" ELSE "500"]
    /\ UNCHANGED <<now, file_storage, allowed_users, files, next_id, handler, sweeper, issued, server, sanitizer>>

(***************************************************************************)
(* The sweeper and the environment                                         *)
(***************************************************************************)
\* the awaits of media_handler that are one call to Telegram or to TinyURL
\* (the shortener call is cut by the 5 minutes of aiohttp's default timeout)
ShortAwaits == {"checking", "rejected", "failed", "registered", "shortening",
                "shortened", "error"}

\* time passes; asyncio.sleep(3600) is over once the hour has passed.  A
\* FileResponse that download_file has returned starts being sent right away,
\* and a handler in one of its short awaits is through it, before the clock
\* is looked at again
AdvanceClock ==
    /\ now + ClockStep <= MaxTime
    /\ \A r \in Requests : request[r].pc # "responding"
    /\ \A c \in Chats : handler[c].pc \notin ShortAwaits
    /\ now' = now + ClockStep
    /\ sweeper' = IF sweeper.pc = "sleeping" /\ now + ClockStep >= sweeper.wake
                   THEN [sweeper EXCEPT !.pc = "ready"]
                   ELSE sweeper
    /\ UNCHANGED <<file_storage, allowed_users, files, next_id, handler, request, issued, server, sanitizer>>

\* mutant: an unlink() that raises is not caught: the exception ends the task
CleanupTickAborts(stuck) ==
    LET expired_tokens == {t \in DOMAIN file_storage : Expired(file_storage[t], now)}
        paths == {file_storage[t].file_path : t \in expired_tokens} \ stuck
    IN  /\ sweeper.pc = "ready"
        /\ stuck \subseteq {file_storage[t].file_path : t \in expired_tokens} \cap DOMAIN files
        /\ IF stuck = {}
           THEN /\ files' = Unlink(files, paths)
                /\ handler' = Detach(handler, paths \cap DOMAIN files)
                /\ file_storage' = Remove(file_storage, expired_tokens)
                /\ sweeper' = [pc |-> "sleeping", wake |-> now + SleepInterval,
                                current_time |-> now, expired_tokens |-> expired_tokens,
                                deleted |-> paths \cap DOMAIN files, stuck |-> stuck]
           ELSE /\ sweeper' = [sweeper EXCEPT !.pc = "dead", !.stuck = stuck]
                /\ UNCHANGED <<files, handler, file_storage>>
        /\ UNCHANGED <<now, allowed_users, next_id, request, issued, server, sanitizer>>

\* one turn of the loop of cleanup_old_files, which has no await but the
\* sleep; `stuck` are the files whose unlink() raises, which the bare except
\* swallows, `deleted` the files the turn logs as deleted
CleanupTick(stuck) ==
    LET expired_tokens == {t \in DOMAIN file_storage : Expired(file_storage[t], now)}
        paths == {file_storage[t].file_path : t \in expired_tokens} \ stuck
    IN  /\ sweeper.pc = "ready"
        /\ stuck \subseteq {file_storage[t].file_path : t \in expired_tokens} \cap DOMAIN files
        /\ files' = Unlink(files, paths)
        /\ handler' = Detach(handler, paths \cap DOMAIN files)
        /\ file_storage' = Remove(file_storage, expired_tokens)
        /\ sweeper' = [pc |-> "sleeping", wake |-> now + SleepInterval,
                        current_time |-> now, expired_tokens |-> expired_tokens,
                        deleted |-> paths \cap DOMAIN files, stuck |-> stuck]
        /\ UNCHANGED <<now, allowed_users, next_id, request, issued, server, sanitizer>>

\* the file of a live record is deleted from outside the program
OutOfBandDelete(path) ==
    /\ Exists(path)
    /\ \E t \in DOMAIN file_storage : file_storage[t].file_path = path
    /\ files' = Unlink(files, {path})
    /\ handler' = Detach(handler, {path})
    /\ UNCHANGED <<now, file_storage, allowed_users, next_id, request, sweeper, issued, server, sanitizer>>

(***************************************************************************)
(* Startup                                                                 *)
(***************************************************************************)
\* startup_event: Config.validate() raises, or bot.start() does (started is
\* FALSE), and the except branch sets bot_started = False and returns; the
\* handler has returned either way, and the application goes on to serve.
\* (config.py validates at import too, and only prints when that raises.)
StartupEvent(started) ==
    /\ server.phase = "starting"
    /\ IF ConfigValidate(server.config) /\ started
       THEN /\ server' = [server EXCEPT !.phase = "serving", !.bot_started = TRUE]
            /\ sweeper' = [pc |-> "sleeping", wake |-> now + SleepInterval,
                           current_time |-> NoTime, expired_tokens |-> {},
                           deleted |-> {}, stuck |-> {}]
       ELSE /\ server' = [server EXCEPT !.phase = "serving", !.bot_started = FALSE]
            /\ UNCHANGED sweeper
    /\ UNCHANGED <<now, file_storage, allowed_users, files, next_id, handler, request,
                   issued, sanitizer>>

(***************************************************************************)
(* The lines of media_handler that name the file, run on one name          *)
(***************************************************************************)
\* lines 259-273: file_name from the kind of the media and its declared name
DeriveFileName ==
    /\ sanitizer.stage = "message"
    /\ sanitizer' = [sanitizer EXCEPT !.stage = "named",
                         !.file_name = MediaFileName(sanitizer.media, sanitizer.id)]
    /\ UNCHANGED <<now, file_storage, allowed_users, files, next_id, handler, request,
                   sweeper, issued, server>>

\* line 275: safe_filename
SanitizeFileName ==
    /\ sanitizer.stage = "named"
    /\ sanitizer' = [sanitizer EXCEPT !.stage = "safe",
                         !.safe_filename = SafeFilename(sanitizer.file_name)]
    /\ UNCHANGED <<now, file_storage, allowed_users, files, next_id, handler, request,
                   sweeper, issued, server>>

\* line 275 run on its own result
SanitizeAgain ==
    /\ sanitizer.stage = "safe"
    /\ sanitizer' = [sanitizer EXCEPT !.stage = "again",
                         !.again = SafeFilename(sanitizer.safe_filename)]
    /\ UNCHANGED <<now, file_storage, allowed_users, files, next_id, handler, request,
                   sweeper, issued, server>>

(***************************************************************************)
(* Specifications                                                          *)
(***************************************************************************)
\* the steps that do not draw a token
Others ==
    \/ \E u \in Users : JoinedCallback(u)
    \/ \E c \in Chats, u \in Users : MediaCheck(c, u)
    \/ \E c \in Chats, is_subscribed \in BOOLEAN : MediaRejected(c, is_subscribed)
    \/ \E c \in Chats, u \in Users, media \in Medias : MediaStart(c, u, media)
    \/ \E c \in Chats : StreamChunk(c)
    \/ \E c \in Chats : StreamStall(c)
    \/ \E c \in Chats : StreamFail(c)
    \/ \E c \in Chats : StreamEndMissing(c)
    \/ \E c \in Chats : ShortenStart(c)
    \/ \E c \in Chats, outcome \in ShortenOutcomes : ShortenReturn(c, outcome)
    \/ \E c \in Chats : EditRaises(c)
    \/ \E c \in Chats : MediaFinal(c)
    \/ \E c \in Chats : MediaReturn(c)
    \/ \E r \in Requests, token \in Tokens : DownloadFile(r, token)
    \/ \E r \in Requests : SendResponse(r)
    \/ AdvanceClock
    \/ \E stuck \in SUBSET DOMAIN files : CleanupTick(stuck)
    \/ \E path \in DOMAIN files : OutOfBandDelete(path)

\* secrets.token_urlsafe(16) returns a value it has not returned before (the
\* chance of anything else is 2^-128 per pair of calls)
Next ==
    \/ Others
    \/ \E c \in Chats, token \in Tokens \ issued : StreamEndRegister(c, token)

Spec == Init /\ [][Next]_vars

\* secrets.token_urlsafe(16) may return any value
NextCollide ==
    \/ Others
    \/ \E c \in Chats, token \in Tokens : StreamEndRegister(c, token)

SpecCollide == Init /\ [][NextCollide]_vars

\* the process has been launched with any Config: startup_event has not run,
\* there is no sweeper task
InitStartup ==
    /\ InitProgram
    /\ sweeper = [pc |-> "none", wake |-> 0, current_time |-> NoTime,
                  expired_tokens |-> {},
                  deleted |-> {}, stuck |-> {}]
    /\ \E config \in Configs :
           server = [phase |-> "starting", config |-> config, bot_started |-> FALSE]
    /\ sanitizer = IdleSanitizer

NextStartup ==
    \/ \E started \in BOOLEAN : StartupEvent(started)
    \/ Next

SpecStartup == InitStartup /\ [][NextStartup]_vars

\* a media message with any of the names of NameInputs reaches media_handler
InitNames ==
    /\ InitProgram
    /\ sweeper = [pc |-> "sleeping", wake |-> SleepInterval,
                  current_time |-> NoTime, expired_tokens |-> {},
                  deleted |-> {}, stuck |-> {}]
    /\ server = [phase |-> "serving", config |-> DefaultConfig, bot_started |-> TRUE]
    /\ \E media \in NameMedias, id \in 1..MaxMsgId :
           sanitizer = [stage |-> "message", media |-> media, id |-> id,
                        file_name |-> <<>>, safe_filename |-> <<>>, again |-> <<>>]

NextNames == DeriveFileName \/ SanitizeFileName \/ SanitizeAgain

SpecNames == InitNames /\ [][NextNames]_vars

(***************************************************************************)
(* Steps, as the properties below recognise them                           *)
(***************************************************************************)
\* the step of request r in which download_file runs
DownloadFileStep(r) == request[r].pc \in {"idle", "done"} /\ request'[r] # request[r]

\* the step in which the sweeper's loop body runs
CleanupStep == sweeper.pc = "ready" /\ sweeper'.pc = "sleeping"

\* the step in which the sweeper's loop body runs, however it ends
TickStep == sweeper.pc = "ready" /\ sweeper' # sweeper

\* the step in which the link of chat c first leaves the process: shorten_url
\* sends it to TinyURL (the notification and the final message come later)
ExposeStep(c) == handler[c].pc # "shortening" /\ handler'[c].pc = "shortening"

\* the step in which shorten_url returns to media_handler
ShortenReturnStep(c) == handler[c].pc = "shortening" /\ handler'[c].pc # "shortening"

\* the step in which the stream of chat c raises
StreamFailStep(c) == handler[c].pc = "streaming" /\ handler'[c].stream = "raised"

\* the step in which media_handler registers the file of chat c
RegisterStep(c) == handler[c].pc = "streaming" /\ handler'[c].pc = "registered"

\* a record that was in the registry, and has gone, does not come back
NoReturn == \A t \in issued \ DOMAIN file_storage : t \notin DOMAIN file_storage'

(***************************************************************************)
(* C1. A download request that races a sweeper tick on its token ends      *)
(* 200, with the file there when the response starts being sent, or 404:   *)
(* never anything else.  (Status 200 is set only when the file is there at *)
(* the start of the send.)                                                 *)
(***************************************************************************)
C1_RaceEndsServedOrNotFound ==
    \A r \in Requests :
        (request[r].pc = "done" /\ request[r].token \in sweeper.expired_tokens)
            => request[r].status \in {"200", "404"}

(***************************************************************************)
(* C2. download_file answers with the file only while the record's         *)
(* created_at + TTL is later than now.                                     *)
(***************************************************************************)
C2_ServedOnlyBeforeDeadline ==
    [][\A r \in Requests :
          (DownloadFileStep(r) /\ request'[r].pc = "responding")
              => file_storage[request'[r].token].created_at + TTL > now]_vars

(***************************************************************************)
(* C3. A registration returns a token that is not live in the registry     *)
(* and leaves every record that is there as it is.                         *)
(***************************************************************************)
C3_RegisterNeverOverwrites ==
    [][\A c \in Chats :
          RegisterStep(c)
              => /\ handler'[c].token \notin DOMAIN file_storage
                 /\ \A t \in DOMAIN file_storage :
                        t \in DOMAIN file_storage' /\ file_storage'[t] = file_storage[t]]_vars

(***************************************************************************)
(* C4. Right after a registration the token resolves to a record with the  *)
(* registered file_id, file_name and file_path, whose file_size is the     *)
(* size of the file on disk, and download_file would serve it.             *)
(***************************************************************************)
C4_ResolveAfterRegister ==
    [][\A c \in Chats :
          RegisterStep(c)
              => LET t == handler'[c].token
                 IN  /\ t \in DOMAIN file_storage'
                     /\ file_storage'[t].file_id = handler[c].file_id
                     /\ file_storage'[t].file_name = handler[c].safe_filename
                     /\ file_storage'[t].file_path = HandlerPath(c)
                     /\ file_storage'[t].file_size = files'[HandlerPath(c)]
                     /\ file_storage'[t].file_path \in DOMAIN files']_vars

\* a file is registered with a measured size that is not the declared one
C4_Witness ==
    \E c \in Chats :
        /\ handler[c].pc = "registered"
        /\ handler[c].token \in DOMAIN file_storage
        /\ file_storage[handler[c].token].file_size # handler[c].declared
        /\ file_storage[handler[c].token].file_size = files[HandlerPath(c)]

(***************************************************************************)
(* C5. Lazy repair: download_file on a live record whose file is gone      *)
(* answers 404 and removes that record and no other; a token that is not   *)
(* in the registry is answered 404, and a removed record never comes back. *)
(***************************************************************************)
C5_LazyRepair ==
    [][/\ \A r \in Requests :
              DownloadFileStep(r)
                  => LET t == request'[r].token
                     IN  /\ t \notin DOMAIN file_storage
                               => /\ request'[r].status = "404"
                                  /\ file_storage' = file_storage
                         /\ (t \in DOMAIN file_storage /\ ~Exists(file_storage[t].file_path))
                               => /\ request'[r].status = "404"
                                  /\ DOMAIN file_storage' = DOMAIN file_storage \ {t}
                                  /\ \A u \in DOMAIN file_storage' :
                                         file_storage'[u] = file_storage[u]
       /\ NoReturn]_vars

\* before anything can expire, a request found a record without its file and
\* removed it, and another record is still there
C5_Witness ==
    \E r \in Requests :
        /\ now = 0
        /\ request[r].pc = "done" /\ request[r].status = "404"
        /\ request[r].token \in issued \ DOMAIN file_storage
        /\ \E u \in DOMAIN file_storage : u # request[r].token

(***************************************************************************)
(* C6. Expiry: a record whose file is there stays in the registry, as it   *)
(* was registered, at every time before created_at + TTL, and download_file*)
(* serves it; once a tick has run later than created_at + TTL the record   *)
(* is gone, and it never comes back.                                       *)
(***************************************************************************)
C6_Expiry ==
    /\ [](\A t \in DOMAIN file_storage :
              ~(sweeper.current_time > file_storage[t].created_at + TTL))
    /\ [][/\ \A t \in DOMAIN file_storage :
                 (now < file_storage[t].created_at + TTL
                     /\ Exists(file_storage[t].file_path))
                    => /\ t \in DOMAIN file_storage'
                       /\ file_storage'[t] = file_storage[t]
                       /\ \A r \in Requests :
                              (DownloadFileStep(r) /\ request'[r].token = t)
                                  => request'[r].pc = "responding"
          /\ NoReturn]_vars

\* a tick evicted the record of a token, and a request for it got 404
C6_Witness ==
    \E r \in Requests :
        /\ request[r].pc = "done" /\ request[r].status = "404"
        /\ request[r].token \in sweeper.expired_tokens
        /\ request[r].token \notin DOMAIN file_storage

(***************************************************************************)
(* C7, as claimed: after a tick evaluated at time now the registry holds   *)
(* no record with created_at + TTL <= now.                                 *)
(***************************************************************************)
C7_NoRecordAtOrPastDeadline ==
    [][CleanupStep
          => \A t \in DOMAIN file_storage' :
                 file_storage'[t].created_at + TTL > now]_vars

(***************************************************************************)
(* C7, amended: after a tick evaluated at time now the registry holds no   *)
(* record with created_at + TTL < now, and the tick keeps a record whose   *)
(* age is exactly TTL.                                                     *)
(***************************************************************************)
C7_NoRecordPastDeadline ==
    [][CleanupStep
          => /\ \A t \in DOMAIN file_storage' :
                    file_storage'[t].created_at + TTL >= now
             /\ \A t \in DOMAIN file_storage :
                    file_storage[t].created_at + TTL = now
                        => t \in DOMAIN file_storage']_vars

\* a tick has just run at a time at which a record's age is exactly TTL, and
\* the record is there
C7_Witness ==
    /\ sweeper.pc = "sleeping"
    /\ sweeper.current_time = now
    /\ \E t \in DOMAIN file_storage : file_storage[t].created_at + TTL = now

HandlerStep(c) ==
    \/ StreamChunk(c)
    \/ StreamFail(c)
    \/ StreamEndMissing(c)
    \/ \E token \in Tokens : StreamEndRegister(c, token)
    \/ MediaReturn(c)

C9_StalledDownloadReturns ==
    \A c \in Chats :
        (handler[c].pc = "streaming" /\ handler[c].stream = "stalled")
            => ENABLED HandlerStep(c)

(***************************************************************************)
(* C10. Download paths are owned by one party: no two running downloads    *)
(* write the same path, no running download writes the path of a live      *)
(* record, no two live records have the same file_path.                    *)
(***************************************************************************)
C10_PathsExclusive ==
    /\ \A c, d \in Chats :
           (c # d /\ handler[c].pc = "streaming" /\ handler[d].pc = "streaming")
               => HandlerPath(c) # HandlerPath(d)
    /\ \A c \in Chats, t \in DOMAIN file_storage :
           handler[c].pc = "streaming" => file_storage[t].file_path # HandlerPath(c)
    /\ \A t, u \in DOMAIN file_storage :
           t # u => file_storage[t].file_path # file_storage[u].file_path

(***************************************************************************)
(* C11. The sanitized name has only characters of [A-Za-z0-9._ ], has no   *)
(* trailing whitespace and is never empty: when nothing is left of the     *)
(* name, it is the placeholder "file".                                     *)
(***************************************************************************)
C11_SanitizedNameWellFormed ==
    sanitizer.stage \in {"safe", "again"}
        => /\ \A i \in 1..Len(sanitizer.safe_filename) :
                  sanitizer.safe_filename[i] \in AsciiAllowed
           /\ sanitizer.safe_filename # <<>>
           /\ sanitizer.safe_filename[Len(sanitizer.safe_filename)] # " "
           /\ SelectSeq(sanitizer.file_name, KeepChar) = <<>>
                  => sanitizer.safe_filename = <<"f", "i", "l", "e">>

(***************************************************************************)
(* C12. Sanitizing is idempotent: the sanitizing line of media_handler,    *)
(* run on a name it has produced, gives that name again.                   *)
(***************************************************************************)
C12_SanitizeIdempotent ==
    sanitizer.stage = "again" => sanitizer.again = sanitizer.safe_filename

\* a name that lost a character and its trailing whitespace is sanitized again
C12_Witness ==
    /\ sanitizer.stage = "again"
    /\ Len(sanitizer.safe_filename) >= 1
    /\ Len(sanitizer.safe_filename) + 2 <= Len(sanitizer.file_name)
    /\ sanitizer.file_name[Len(sanitizer.file_name)] = "*"
    /\ sanitizer.file_name[Len(sanitizer.file_name) - 1] = " "
    /\ sanitizer.again = sanitizer.safe_filename

(***************************************************************************)
(* C13. A configuration failure is fatal: when Config.validate() raises,   *)
(* no /download request is ever answered and no media message is taken.    *)
(***************************************************************************)
C13_ConfigFailureFatal ==
    ~ConfigValidate(server.config)
        => /\ \A r \in Requests : request[r].pc = "idle"
           /\ \A c \in Chats : handler[c].pc = "idle" /\ next_id[c] = 1

(***************************************************************************)
(* C14. Not found does not tell: download_file answers a token that was    *)
(* issued and has expired, or has lost its file or its record, with the    *)
(* status and the body it answers a token that was never issued with.      *)
(***************************************************************************)
NeverIssuedResponse == [status |-> "404", detail |-> "File not found or expired"]

C14_NotFoundUniform ==
    [][\A r \in Requests :
          DownloadFileStep(r)
              => LET t == request'[r].token
                     response == [status |-> request'[r].status,
                                  detail |-> request'[r].detail]
                 IN  /\ t \notin issued => response = NeverIssuedResponse
                     /\ (/\ t \in issued
                         /\ \/ t \notin DOMAIN file_storage
                            \/ ~Exists(file_storage[t].file_path)
                            \/ now > file_storage[t].created_at + TTL)
                           => response = NeverIssuedResponse]_vars

(***************************************************************************)
(* C15. A shortening failure is never fatal: shorten_url returns the short *)
(* URL, or long_url on any failure, and a handler that has registered its  *)
(* file ends with the final message that shows the link, never with the    *)
(* error reply.                                                            *)
(***************************************************************************)
C15_ShorteningNeverFatal ==
    [][\A c \in Chats :
          /\ ShortenReturnStep(c)
                => /\ handler'[c].pc = "shortened"
                   /\ handler'[c].short_url \in
                         {ShortUrl(LongUrl(handler[c].token)), LongUrl(handler[c].token)}
          /\ handler[c].token # NoToken
                => /\ handler'[c].pc # "error"
                   /\ handler'[c].pc = "idle" => handler[c].pc = "shortened"]_vars

(***************************************************************************)
(* C16. A file whose deletion fails does not stop the tick: the tick       *)
(* removes every expired record and deletes the file of each but the ones  *)
(* whose unlink raised; the tick is one step of the one sweeper task,      *)
(* which sleeps again after it and can always run its next tick.           *)
(***************************************************************************)
C16_SweeperFailuresIsolated ==
    /\ [](sweeper.pc \in {"sleeping", "ready"})
    /\ [](sweeper.pc = "ready" => ENABLED CleanupTick({}))
    /\ [][TickStep
            => /\ sweeper'.pc = "sleeping"
               /\ sweeper'.wake = now + SleepInterval
               /\ \A t \in DOMAIN file_storage :
                      Expired(file_storage[t], now)
                          => /\ t \notin DOMAIN file_storage'
                             /\ file_storage[t].file_path \notin sweeper'.stuck
                                    => file_storage[t].file_path \notin DOMAIN files']_vars

\* a tick found two expired records: the unlink of one file raised, the file
\* of the other is deleted, both records are gone, the sweeper sleeps
C16_Witness ==
    /\ sweeper.pc = "sleeping"
    /\ Cardinality(sweeper.expired_tokens) >= 2
    /\ sweeper.expired_tokens \cap DOMAIN file_storage = {}
    /\ sweeper.stuck # {} /\ sweeper.stuck \subseteq DOMAIN files
    /\ sweeper.deleted # {} /\ sweeper.deleted \cap DOMAIN files = {}

C18_TickFrame ==
    [][TickStep
          => /\ \A t \in DOMAIN file_storage \ DOMAIN file_storage' :
                    Expired(file_storage[t], now)
             /\ \A t \in DOMAIN file_storage :
                    ~Expired(file_storage[t], now)
                        => /\ t \in DOMAIN file_storage'
                           /\ file_storage'[t] = file_storage[t]
                           /\ Exists(file_storage[t].file_path)
                                  => /\ file_storage[t].file_path \in DOMAIN files'
                                     /\ files'[file_storage[t].file_path]
                                           = files[file_storage[t].file_path]]_vars

(***************************************************************************)
(* C19. No orphan: when the sweeper has removed a record, the file of the  *)
(* record is not on storage any more.                                      *)
(***************************************************************************)
C19_RemovedRecordHasNoFile ==
    [][TickStep
          => \A t \in DOMAIN file_storage \ DOMAIN file_storage' :
                 file_storage[t].file_path \notin DOMAIN files']_vars

(***************************************************************************)
(* C20. Admission: media_handler turns a media message away only when the  *)
(* sender is not in allowed_users and check_group_subscription answers     *)
(* False; a sender the check answers True for is admitted.                 *)
(***************************************************************************)
C20_AdmitWhenSubscribed ==
    \A c \in Chats : handler[c].pc = "rejected" => ~handler[c].is_subscribed

=============================================================================
